---------------------------- MODULE Spec2Model ----------------------------
(***************************************************************************)
(* Model of the date-selection state engine of the date picker            *)
(* (src/src/DatePicker/useDatePicker.tsx): the DatePickerProvider state,  *)
(* parseSelection, the configuration effect and the handlers the provider *)
(* exposes through its context.                                           *)
(*                                                                         *)
(* A Date is its time value, an integer number of clock ticks; one        *)
(* calendar day is DayLen ticks long, tick 0 of a day being local         *)
(* midnight.  An Invalid Date has the time value NaN.                      *)
(***************************************************************************)
EXTENDS Integers, Sequences, FiniteSets, TLC

\* ------------------------------------------------------------------ bounds
NumDays == 2        \* calendar days the model draws dates from
DayLen  == 2        \* clock ticks per calendar day (tick 0 is midnight)
MaxLen  == 2        \* longest array supplied as the external value
MaxReconfigs == 1   \* renders of the provider with a new configuration prop

\* ------------------------------------------------- values of the language
NoDate == -1        \* null / undefined where a Date is expected
NaN    == -2        \* time value of an Invalid Date

Days       == 0 .. (NumDays - 1)
Timestamps == 0 .. (NumDays * DayLen - 1)

\* The dates the day grid hands to the handlers: the midnight of every day,
\* and one date that carries a time of day.
PickDates == {d * DayLen : d \in Days} \cup {1}

SelectionVariant == {"single", "multi", "range"}

\* A Selection | StringSelection value, tagged by its run-time shape:
\*   none      null or undefined
\*   date      a Date                     (t)
\*   str       a string                   (t: the time value it denotes)
\*   arr       an Array<Date>             (ds)
\*   strarr    an Array<string>           (ds)
\*   range     a RangeSelection           (from, to; to = NoDate for null)
\*   strrange  a StringRangeSelection     (from, to)
Val(k, t, ds, from, to) == [k |-> k, t |-> t, ds |-> ds, from |-> from, to |-> to]
None             == Val("none", NoDate, <<>>, NoDate, NoDate)
DateV(t)         == Val("date", t, <<>>, NoDate, NoDate)
StrV(t)          == Val("str", t, <<>>, NoDate, NoDate)
ArrV(ds)         == Val("arr", NoDate, ds, NoDate, NoDate)
StrArrV(ds)      == Val("strarr", NoDate, ds, NoDate, NoDate)
RangeV(from, to) == Val("range", NoDate, <<>>, from, to)
StrRangeV(from, to) == Val("strrange", NoDate, <<>>, from, to)

\* ----------------------------------------------------- Date and date-fns
\* Date.prototype.toDateString: the calendar day of the date.
toDateString(t) == IF t = NaN THEN NaN ELSE t \div DayLen

\* new Date(dateString): local midnight of the day the string names.
NewDate(day) == IF day = NaN THEN NaN ELSE day * DayLen

\* new Date(new Date(d).toDateString()); d undefined gives an Invalid Date.
Normalized(t) == IF t = NoDate THEN NaN ELSE NewDate(toDateString(t))

isEqual(a, b)  == a # NaN /\ b # NaN /\ a = b
isBefore(a, b) == a # NaN /\ b # NaN /\ a < b
isAfter(a, b)  == a # NaN /\ b # NaN /\ a > b

\* (a, b) => a.getTime() - b.getTime(); a NaN result counts as +0.
compare(a, b) == IF a = NaN \/ b = NaN THEN 0 ELSE a - b

RECURSIVE insert(_, _)
insert(s, x) ==
  IF s = <<>> THEN <<x>>
  ELSE IF compare(s[Len(s)], x) > 0
       THEN Append(insert(SubSeq(s, 1, Len(s) - 1), x), s[Len(s)])
       ELSE Append(s, x)

\* Array.prototype.sort with the comparator above (a stable sort).
RECURSIVE sort(_)
sort(s) ==
  IF s = <<>> THEN <<>>
  ELSE insert(sort(SubSeq(s, 1, Len(s) - 1)), s[Len(s)])

\* The calendar: day 0 of the time scale is 1 December 2023, and the
\* months the view can show are December 2023 to March 2024.
MonthLengths == <<31, 31, 29, 31>>
Months == DOMAIN MonthLengths
RECURSIVE MonthStart(_)
MonthStart(m) == IF m = 1 THEN 0 ELSE MonthStart(m - 1) + MonthLengths[m - 1]
CalendarDays == 0 .. (MonthStart(Len(MonthLengths)) + MonthLengths[Len(MonthLengths)] - 1)

\* Date.prototype.getMonth (as an index into Months) and getDate.
getMonth(t) ==
  CHOOSE m \in Months :
    /\ MonthStart(m) <= t \div DayLen
    /\ t \div DayLen < MonthStart(m) + MonthLengths[m]
getDate(t) == (t \div DayLen) - MonthStart(getMonth(t)) + 1

\* An addMonths that adds the day of the month to the start of the target
\* month without clamping it to the month's length.
addMonthsOverflowing(t, amount) ==
  LET desired == getMonth(t) + amount
  IN (MonthStart(desired) + getDate(t) - 1) * DayLen + (t % DayLen)

\* date-fns addMonths: the same day of the month amount months later, or
\* the last day of that month when it is shorter; the time of day is kept.
addMonths(t, amount) ==
  LET desired     == getMonth(t) + amount
      daysInMonth == MonthLengths[desired]
      dayOfMonth  == IF getDate(t) >= daysInMonth THEN daysInMonth ELSE getDate(t)
  IN (MonthStart(desired) + dayOfMonth - 1) * DayLen + (t % DayLen)
subMonths(t, amount) == addMonths(t, 0 - amount)

\* new Date() when the provider is constructed: 31 January 2024, during
\* the day.
Now == (MonthStart(2) + 30) * DayLen + 1

\* ------------------------------------------------------------ type guards
isSingleSelection(s) == s.k = "date"
isMultiSelection(s)  == s.k \in {"arr", "strarr"}
isRangeSelection(s)  == s.k \in {"range", "strrange"}

\* selection[i] of an array, 0-based as in the source; undefined is NoDate.
At(ds, i) == IF i + 1 <= Len(ds) THEN ds[i + 1] ELSE NoDate

\* A parseSelection that keeps the time of day of a single date it wraps
\* into a list.
parseSelectionKeepingTime(selection, variant) ==
  IF selection.k = "none" THEN None
  ELSE IF variant = "multi" THEN
    IF isMultiSelection(selection)
      THEN ArrV(sort([i \in DOMAIN selection.ds |-> Normalized(selection.ds[i])]))
    ELSE IF selection.k = "date"
      THEN ArrV(<<selection.t>>)
    ELSE IF isRangeSelection(selection)
      THEN ArrV(sort(<<Normalized(selection.from)>> \o
                     (IF selection.to # NoDate
                        THEN <<Normalized(selection.to)>> ELSE <<>>)))
    ELSE None
  ELSE IF variant = "range" THEN
    IF isRangeSelection(selection)
      THEN RangeV(Normalized(selection.from),
                  IF selection.to # NoDate THEN Normalized(selection.to) ELSE NoDate)
    ELSE IF isMultiSelection(selection)
      THEN RangeV(Normalized(At(selection.ds, 0)),
                  IF At(selection.ds, 1) # NoDate
                    THEN Normalized(At(selection.ds, 1)) ELSE NoDate)
    ELSE IF selection.k = "date"
      THEN RangeV(Normalized(selection.t), NoDate)
    ELSE None
  ELSE
    IF selection.k = "date" THEN DateV(Normalized(selection.t))
    ELSE IF isMultiSelection(selection) THEN DateV(Normalized(At(selection.ds, 0)))
    ELSE IF isRangeSelection(selection) THEN DateV(Normalized(selection.from))
    ELSE None

\* parseSelection: the value coerced to the variant of the selection mode.
parseSelection(selection, variant) ==
  IF selection.k = "none" THEN None
  ELSE IF variant = "multi" THEN
    IF isMultiSelection(selection)
      THEN ArrV(sort([i \in DOMAIN selection.ds |-> Normalized(selection.ds[i])]))
    ELSE IF selection.k = "date"
      THEN ArrV(<<Normalized(selection.t)>>)
    ELSE IF isRangeSelection(selection)
      THEN ArrV(sort(<<Normalized(selection.from)>> \o
                     (IF selection.to # NoDate
                        THEN <<Normalized(selection.to)>> ELSE <<>>)))
    ELSE None
  ELSE IF variant = "range" THEN
    IF isRangeSelection(selection)
      THEN RangeV(Normalized(selection.from),
                  IF selection.to # NoDate THEN Normalized(selection.to) ELSE NoDate)
    ELSE IF isMultiSelection(selection)
      THEN RangeV(Normalized(At(selection.ds, 0)),
                  IF At(selection.ds, 1) # NoDate
                    THEN Normalized(At(selection.ds, 1)) ELSE NoDate)
    ELSE IF selection.k = "date"
      THEN RangeV(Normalized(selection.t), NoDate)
    ELSE None
  ELSE
    IF selection.k = "date" THEN DateV(Normalized(selection.t))
    ELSE IF isMultiSelection(selection) THEN DateV(Normalized(At(selection.ds, 0)))
    ELSE IF isRangeSelection(selection) THEN DateV(Normalized(selection.from))
    ELSE None

\* ---------------------------------------------------------- configuration
defaultConfiguration ==
  [anchorVariant |-> "button", confirmation |-> FALSE,
   contiguousSelection |-> FALSE, dimWeekends |-> FALSE,
   placeholder |-> "Select a Date...", selection |-> "single",
   view |-> "2-month", weekStartsOn |-> "Sunday"]

\* The fields of DatePickerConfiguration.
ConfigurationFields ==
  {"anchorVariant", "blockedDates", "confirmation", "contiguousSelection",
   "dateFormat", "dimWeekends", "minDate", "maxDate", "placeholder",
   "rangeIncrement", "selection", "view", "weekStartsOn"}

\* A merge in which the first object's keys win.
deepmergeKeepingFirst(x, y) ==
  [f \in (DOMAIN x) \cup (DOMAIN y) |-> IF f \in DOMAIN x THEN x[f] ELSE y[f]]

\* deepmerge(x, y) of two flat option objects: y's keys override x's.
deepmerge(x, y) ==
  [f \in (DOMAIN x) \cup (DOMAIN y) |-> IF f \in DOMAIN y THEN y[f] ELSE x[f]]

\* The partial configurations a caller passes: either of the two options
\* the engine reads may be left out.
ExternalConfigs ==
  {[f \in fs |-> IF f = "selection" THEN s ELSE TRUE] :
     fs \in SUBSET {"selection", "confirmation"}, s \in SelectionVariant}

\* The values a caller passes as the initial value.
SeqsUpTo(S, n) == UNION {[1 .. m -> S] : m \in 0 .. n}
Values ==
  {None}
    \cup {DateV(t) : t \in Timestamps} \cup {StrV(t) : t \in Timestamps}
    \cup {ArrV(ds) : ds \in SeqsUpTo(Timestamps, MaxLen)}
    \cup {StrArrV(ds) : ds \in SeqsUpTo(Timestamps, MaxLen)}
    \cup {RangeV(f, t) : f \in Timestamps, t \in Timestamps \cup {NoDate}}
    \cup {StrRangeV(f, t) : f \in Timestamps, t \in Timestamps \cup {NoDate}}

\* The selections a consumer passes to saveValue (None: no argument).
SaveArgs == {None, DateV(0), RangeV(0, DayLen)}

\* ------------------------------------------------------------------ state
VARIABLES
  externalConfig,      \* the configuration prop
  omittedConfig,       \* the prop is omitted: externalConfig is the default
                       \* {}, a new object on every render
  reconfigs,           \* renders with a new configuration prop so far
  configuration,       \* useState: the merged configuration
  previousSelection,   \* useState
  selection,           \* useState
  hoverRange,          \* useState: a RangeSelection or None (null)
  currentViewingDate,  \* useState
  effectDue,           \* the configuration effect is scheduled
  closeCalls,          \* calls of closePicker made by the last step
  thrown,              \* the last step's handler raised a TypeError
  last,                \* the last step: the operation, its date argument
                       \* and its selection argument (the value prop of
                       \* the construction, the argument of saveValue)
  hook                 \* a consumer's useDatePicker(date): its date, its
                       \* useState selected, and whether its effect is
                       \* scheduled; NoHook when no consumer is mounted

vars == <<externalConfig, omittedConfig, reconfigs, configuration, previousSelection,
          selection, hoverRange, currentViewingDate, effectDue, closeCalls,
          thrown, last, hook>>

Step(op, date, arg) == [op |-> op, date |-> date, arg |-> arg]

\* What a handler of the current render closes over, and what it leaves.
Store ==
  [configuration |-> configuration, previousSelection |-> previousSelection,
   selection |-> selection, hoverRange |-> hoverRange,
   closeCalls |-> 0, thrown |-> FALSE]

\* The limits a caller may configure for the days of the calendar: none,
\* a blocked date, or a first and a last day, each with a time of day.
Limits ==
  {[f \in {} |-> TRUE],
   [blockedDates |-> <<1>>],
   [minDate |-> 1, maxDate |-> DayLen + 1]}

\* The configurations passed by a caller whose days query the picker: a
\* mode with limits, or a mode with confirmation.
QueryConfigs ==
  {deepmerge([selection |-> s], limits) : s \in SelectionVariant, limits \in Limits}
    \cup {[selection |-> s, confirmation |-> TRUE] : s \in SelectionVariant}

NoHook == [date |-> NoDate, selected |-> "false", due |-> FALSE]

DatePickerProvider(configs) ==
  /\ externalConfig \in configs
  /\ omittedConfig \in BOOLEAN
  /\ omittedConfig => externalConfig = [f \in {} |-> TRUE]
  /\ reconfigs = 0
  /\ configuration = deepmerge(defaultConfiguration, externalConfig)
  /\ \E value \in Values :
       /\ previousSelection = parseSelection(value, configuration.selection)
       /\ selection = parseSelection(value, configuration.selection)
       /\ last = Step("mount", NoDate, value)
  /\ hoverRange = None
  /\ currentViewingDate = Now
  /\ effectDue = TRUE
  /\ closeCalls = 0
  /\ thrown = FALSE

Init == DatePickerProvider(ExternalConfigs) /\ hook = NoHook

\* --------------------------------------------------------------- handlers
\* A saveValue that commits the current selection whatever it is given.
saveValueIgnoringArgument(st, updatedSelection) ==
  [st EXCEPT !.previousSelection = st.selection, !.closeCalls = @ + 1]

\* A saveValue that does not call closePicker.
saveValueSilent(st, updatedSelection) ==
  [st EXCEPT !.previousSelection =
               IF updatedSelection.k # "none" THEN updatedSelection
               ELSE st.selection]

\* setPreviousSelection(updatedSelection ?? selection); closePicker?.()
saveValue(st, updatedSelection) ==
  [st EXCEPT !.previousSelection =
               IF updatedSelection.k # "none" THEN updatedSelection
               ELSE st.selection,
             !.closeCalls = @ + 1]

\* Array.prototype.findIndex(s => isEqual(s, date)), 1-based; 0 for -1.
findIndex(ds, date) ==
  IF \E i \in DOMAIN ds : isEqual(ds[i], date)
    THEN CHOOSE i \in DOMAIN ds :
           /\ isEqual(ds[i], date)
           /\ \A j \in 1 .. (i - 1) : ~isEqual(ds[j], date)
    ELSE 0

\* selections.splice(i, 1)
splice(ds, i) == SubSeq(ds, 1, i - 1) \o SubSeq(ds, i + 1, Len(ds))

\* The ordering of the two endpoints left out.
rangeOfUnordered(date, from) == RangeV(from, date)

\* isBefore(date, from) ? {from: date, to: from} : {from: from, to: date}
rangeOf(date, from) ==
  IF isBefore(date, from) THEN RangeV(date, from) ELSE RangeV(from, date)

\* selectionHandler, configuration.selection === 'multi'.
\* [...selection] of a value that is not an array raises a TypeError.
toggleMulti(st, date) ==
  IF st.selection.k # "arr" THEN [st EXCEPT !.thrown = TRUE]
  ELSE LET selections    == st.selection.ds
           existingIndex == findIndex(selections, date)
       IN IF existingIndex > 0
            THEN [st EXCEPT !.selection = ArrV(sort(splice(selections, existingIndex)))]
            ELSE [st EXCEPT !.selection = ArrV(sort(Append(selections, date)))]

\* A range branch that commits when a new range is started as well.
chooseRangeCommitting(st, date) ==
  IF st.selection.k # "none" /\ isRangeSelection(st.selection)
       /\ st.selection.to = NoDate
    THEN LET updatedSelection == rangeOf(date, st.selection.from)
             closed == [st EXCEPT !.selection = updatedSelection,
                                  !.hoverRange = None]
         IN IF ~st.configuration.confirmation
              THEN saveValue(closed, updatedSelection)
              ELSE closed
    ELSE LET opened == [st EXCEPT !.hoverRange = RangeV(date, date),
                                  !.selection = RangeV(date, NoDate)]
         IN IF ~st.configuration.confirmation
              THEN saveValue(opened, RangeV(date, NoDate))
              ELSE opened

\* A range branch that leaves the hover preview in place on closing.
chooseRangeKeepingHover(st, date) ==
  IF st.selection.k # "none" /\ isRangeSelection(st.selection)
       /\ st.selection.to = NoDate
    THEN LET updatedSelection == rangeOf(date, st.selection.from)
             closed == [st EXCEPT !.selection = updatedSelection]
         IN IF ~st.configuration.confirmation
              THEN saveValue(closed, updatedSelection)
              ELSE closed
    ELSE [st EXCEPT !.hoverRange = RangeV(date, date),
                    !.selection = RangeV(date, NoDate)]

\* selectionHandler, configuration.selection === 'range'.
chooseRange(st, date) ==
  IF st.selection.k # "none" /\ isRangeSelection(st.selection)
       /\ st.selection.to = NoDate
    THEN LET updatedSelection == rangeOf(date, st.selection.from)
             closed == [st EXCEPT !.selection = updatedSelection,
                                  !.hoverRange = None]
         IN IF ~st.configuration.confirmation
              THEN saveValue(closed, updatedSelection)
              ELSE closed
    ELSE [st EXCEPT !.hoverRange = RangeV(date, date),
                    !.selection = RangeV(date, NoDate)]

\* A single branch that commits whatever the confirmation option says.
chooseSingleCommitting(st, date) ==
  saveValue([st EXCEPT !.selection = DateV(date)], DateV(date))

\* selectionHandler, any other configuration.selection.
chooseSingle(st, date) ==
  LET chosen == [st EXCEPT !.selection = DateV(date)]
  IN IF ~st.configuration.confirmation
       THEN saveValue(chosen, DateV(date))
       ELSE chosen

selectionHandler(st, date) ==
  IF st.configuration.selection = "multi" THEN toggleMulti(st, date)
  ELSE IF st.configuration.selection = "range" THEN chooseRange(st, date)
  ELSE chooseSingle(st, date)

focusHnadler(st, date) ==
  IF st.selection.k = "none" THEN st
  ELSE IF st.configuration.selection = "range" /\ isRangeSelection(st.selection)
            /\ st.hoverRange.k # "none"
    THEN [st EXCEPT !.hoverRange = rangeOf(date, st.selection.from)]
    ELSE st

\* A blurHnadler that resets the hover preview to its first day when the
\* blurred day is one of its ends.
blurHnadlerResetting(st, date) ==
  IF st.selection.k = "none" \/ st.hoverRange.k = "none" THEN st
  ELSE IF st.configuration.selection = "range" /\ isRangeSelection(st.selection)
            /\ (st.hoverRange.from = date \/ st.hoverRange.to = date)
    THEN [st EXCEPT !.hoverRange = RangeV(st.hoverRange.from, st.hoverRange.from)]
    ELSE st

\* blurHnadler: its only statement is commented out.
blurHnadler(st, date) == st

\* A revertValue that exchanges the two selections instead of copying one.
revertValueSwapping(st) ==
  [st EXCEPT !.selection = st.previousSelection,
             !.previousSelection = st.selection]

\* A revertValue that leaves the tentative selection in place.
revertValueKeeping(st) == st

revertValue(st) == [st EXCEPT !.selection = st.previousSelection]

\* ---------------------------------------------------------- formattedDate
\* date-fns format(date, template): the calendar day of the date written
\* in the template (the time of day is not part of either template); the
\* day is NaN where format raises a RangeError, which it does for an
\* Invalid Date and for undefined.
format(date, template) ==
  [day |-> IF date \in {NaN, NoDate} THEN NaN ELSE date \div DayLen,
   template |-> template]

\* date ? format(date, template) : '' (an Invalid Date is an object, so it
\* is formatted); the empty string has no day and no template.
formatOrEmpty(date, template) ==
  IF date # NoDate THEN format(date, template)
  ELSE [day |-> NoDate, template |-> ""]

\* A string that getFormattedDate returns as it stands.
Literal(text) == [k |-> text, n |-> 0, parts |-> <<>>, sep |-> ""]

\* parts.join(sep); the RangeError of a format call leaves the callback.
join(parts, sep) ==
  IF \E i \in DOMAIN parts : parts[i].day = NaN THEN Literal("RangeError")
  ELSE [k |-> "dates", n |-> 0, parts |-> parts, sep |-> sep]

getFormattedDate(cfg, sel) ==
  LET template ==
        IF "dateFormat" \in DOMAIN cfg
          THEN CASE cfg.dateFormat = "short" -> "MMM d"
                 [] cfg.dateFormat = "long"  -> "MMM d, yyyy"
                 [] OTHER -> cfg.dateFormat
          ELSE "MMM d"
  IN IF sel.k = "none" THEN Literal(cfg.placeholder)
     ELSE IF cfg.selection = "single" THEN
       IF sel.k = "date" THEN join(<<format(sel.t, template)>>, "")
       ELSE IF isMultiSelection(sel)
         THEN join(<<format(At(sel.ds, 0), template)>>, "")
       ELSE IF isRangeSelection(sel)
         THEN join(<<format(sel.from, template)>>, "")
       ELSE Literal("Invalid Selection")
     ELSE IF cfg.selection = "multi" THEN
       IF isMultiSelection(sel) THEN
         IF Len(sel.ds) > 3
           THEN [k |-> "Selected", n |-> Len(sel.ds), parts |-> <<>>, sep |-> ""]
           ELSE join([i \in DOMAIN sel.ds |-> format(sel.ds[i], template)], ", ")
       ELSE IF sel.k = "date" THEN join(<<format(sel.t, template)>>, ", ")
       ELSE IF isRangeSelection(sel)
         THEN join(<<formatOrEmpty(sel.to, template),
                     formatOrEmpty(sel.from, template)>>, ", ")
       ELSE Literal("Invalid Selection")
     ELSE IF cfg.selection = "range" THEN
       IF isRangeSelection(sel)
         THEN join(<<formatOrEmpty(sel.from, template),
                     formatOrEmpty(sel.to, template)>>, " - ")
       ELSE IF sel.k = "date"
         THEN join(<<formatOrEmpty(sel.t, template),
                     formatOrEmpty(NoDate, template)>>, " - ")
       ELSE IF isMultiSelection(sel)
         THEN join(<<formatOrEmpty(At(sel.ds, 0), template),
                     formatOrEmpty(At(sel.ds, 1), template)>>, " - ")
       ELSE Literal("Invalid Selection")
     ELSE Literal("Invalid Configuration")

\* The formattedDate of the context, recomputed in every render.
formattedDate == getFormattedDate(configuration, selection)

\* ---------------------------------------------------------- useDatePicker
\* The start / end / middle / false chain that the status effect applies to
\* a from/to pair.
rangeStatus(date, range) ==
  IF isEqual(date, range.from) THEN "start"
  ELSE IF range.to # NoDate /\ isEqual(date, range.to) THEN "end"
  ELSE IF isAfter(date, range.from) /\ range.to # NoDate /\ isBefore(date, range.to)
    THEN "middle"
  ELSE "false"

\* A status effect that looks at the selection before the hover range.
setSelectedSelectionFirst(date, hover, sel, selected) ==
  IF sel.k # "none" THEN
    IF isMultiSelection(sel)
      THEN IF \E i \in DOMAIN sel.ds : isEqual(sel.ds[i], date) THEN "true" ELSE "false"
    ELSE IF isRangeSelection(sel) THEN rangeStatus(date, sel)
    ELSE IF isEqual(date, sel.t) THEN "true" ELSE "false"
  ELSE IF hover.k # "none" THEN
    IF isRangeSelection(hover) THEN rangeStatus(date, hover) ELSE selected
  ELSE selected

\* The status effect of useDatePicker(date): the value of selected after
\* it has run; selected keeps its value where no setSelected is reached.
setSelected(date, hover, sel, selected) ==
  IF hover.k # "none" THEN
    IF isRangeSelection(hover) THEN rangeStatus(date, hover) ELSE selected
  ELSE IF sel.k # "none" THEN
    IF isMultiSelection(sel)
      THEN IF \E i \in DOMAIN sel.ds : isEqual(sel.ds[i], date) THEN "true" ELSE "false"
    ELSE IF isRangeSelection(sel) THEN rangeStatus(date, sel)
    ELSE IF isEqual(date, sel.t) THEN "true" ELSE "false"
  ELSE selected

\* let blocked, disabled = false: blocked is undefined unless blockedDates
\* is configured.
blocked(cfg, date) ==
  IF "blockedDates" \in DOMAIN cfg
    THEN IF \E i \in DOMAIN cfg.blockedDates : isEqual(cfg.blockedDates[i], date)
           THEN "true" ELSE "false"
    ELSE "undefined"

disabled(cfg, date) ==
  IF "minDate" \in DOMAIN cfg \/ "maxDate" \in DOMAIN cfg
    THEN \/ "minDate" \in DOMAIN cfg /\ isBefore(date, cfg.minDate)
         \/ "maxDate" \in DOMAIN cfg /\ isAfter(date, cfg.maxDate)
    ELSE FALSE

\* The deps [date, value.hoverRange, value.selection] of the status effect:
\* it is scheduled by a render in which one of them has changed.
Rendered(h, hover, sel) ==
  IF h.date = NoDate THEN h
  ELSE [h EXCEPT !.due = @ \/ hover # hoverRange \/ sel # selection]

\* ---------------------------------------------------------------- actions
\* A handler runs on the state of the last render.  With a configuration
\* prop the effect has run by then; with the prop omitted the effect is due
\* after every render and events interleave with it.
CanHandle == (~effectDue \/ omittedConfig) /\ ~hook.due

ApplyStep(st, step) ==
  /\ configuration' = st.configuration
  /\ previousSelection' = st.previousSelection
  /\ selection' = st.selection
  /\ hoverRange' = st.hoverRange
  /\ closeCalls' = st.closeCalls
  /\ thrown' = st.thrown
  /\ last' = step
  /\ hook' = Rendered(hook, st.hoverRange, st.selection)
  /\ UNCHANGED <<externalConfig, omittedConfig, reconfigs, effectDue,
                 currentViewingDate>>

Apply(st, op, date) == ApplyStep(st, Step(op, date, None))

OnSelection(date) == CanHandle /\ Apply(selectionHandler(Store, date), "onSelection", date)
OnDayFocus(date)  == CanHandle /\ Apply(focusHnadler(Store, date), "onDayFocus", date)
OnDayBlur(date)   == CanHandle /\ Apply(blurHnadler(Store, date), "onDayBlur", date)
SaveValue(s)      == CanHandle /\ ApplyStep(saveValue(Store, s), Step("saveValue", NoDate, s))
RevertValue       == CanHandle /\ Apply(revertValue(Store), "revertValue", NoDate)

\* useEffect(..., [configuration.selection, externalConfig]): it runs after
\* the first render and after every render in which the merged selection
\* mode or the identity of the configuration prop has changed; it closes
\* over the selection and the configuration of that render.
ConfigurationEffect ==
  /\ effectDue
  /\ ~hook.due
  /\ configuration' = deepmerge(defaultConfiguration, externalConfig)
  /\ selection' = parseSelection(selection, configuration.selection)
  /\ effectDue' = (omittedConfig \/ configuration'.selection # configuration.selection)
  /\ closeCalls' = 0
  /\ thrown' = FALSE
  /\ last' = Step("effect", NoDate, None)
  /\ hook' = Rendered(hook, hoverRange, selection')
  /\ UNCHANGED <<externalConfig, omittedConfig, reconfigs, previousSelection,
                 hoverRange, currentViewingDate>>

\* The caller renders the provider with another configuration object.
Reconfigure(cfg) ==
  /\ CanHandle
  /\ reconfigs < MaxReconfigs
  /\ reconfigs' = reconfigs + 1
  /\ externalConfig' = cfg
  /\ omittedConfig' = FALSE
  /\ effectDue' = TRUE
  /\ closeCalls' = 0
  /\ thrown' = FALSE
  /\ last' = Step("reconfigure", NoDate, None)
  /\ UNCHANGED <<configuration, previousSelection, selection, hoverRange,
                 currentViewingDate, hook>>

\* goToMonth, nextMonth and previousMonth set the viewed month only; the
\* view stays inside Months.
Navigate(op, date, target) ==
  /\ CanHandle
  /\ currentViewingDate' = target
  /\ closeCalls' = 0
  /\ thrown' = FALSE
  /\ last' = Step(op, date, None)
  /\ UNCHANGED <<externalConfig, omittedConfig, reconfigs, configuration,
                 previousSelection, selection, hoverRange, effectDue, hook>>

GoToMonth(date) == Navigate("goToMonth", date, Normalized(date))
NextMonth ==
  /\ getMonth(currentViewingDate) + 1 \in Months
  /\ Navigate("nextMonth", NoDate, addMonths(currentViewingDate, 1))
PreviousMonth ==
  /\ getMonth(currentViewingDate) - 1 \in Months
  /\ Navigate("previousMonth", NoDate, subMonths(currentViewingDate, 1))

Next ==
  \/ \E date \in PickDates : OnSelection(date)
  \/ \E date \in PickDates : OnDayFocus(date)
  \/ \E date \in PickDates : OnDayBlur(date)
  \/ \E s \in SaveArgs : SaveValue(s)
  \/ RevertValue
  \/ ConfigurationEffect
  \/ \E cfg \in ExternalConfigs : Reconfigure(cfg)

Spec == Init /\ [][Next]_vars

\* The provider with its navigation as well, rendered with a configuration
\* prop that the caller does not replace.
NextNav ==
  \/ \E date \in PickDates : OnSelection(date)
  \/ \E date \in PickDates : OnDayFocus(date)
  \/ \E date \in PickDates : OnDayBlur(date)
  \/ \E s \in SaveArgs : SaveValue(s)
  \/ RevertValue
  \/ ConfigurationEffect
  \/ \E date \in PickDates : GoToMonth(date)
  \/ NextMonth
  \/ PreviousMonth

SpecNav == Init /\ [][NextNav]_vars

\* The same provider with React's scheduling of effects: an effect that is
\* scheduled runs.
SpecNavLive == SpecNav /\ WF_vars(ConfigurationEffect)

\* The status effect of a mounted useDatePicker(date).  The effects of a
\* child run before those of the provider, and all before the next event.
StatusEffect ==
  /\ hook.due
  /\ hook' = [hook EXCEPT !.selected = setSelected(hook.date, hoverRange, selection, @),
                          !.due = FALSE]
  /\ closeCalls' = 0
  /\ thrown' = FALSE
  /\ last' = Step("status", hook.date, None)
  /\ UNCHANGED <<externalConfig, omittedConfig, reconfigs, configuration,
                 previousSelection, selection, hoverRange, currentViewingDate,
                 effectDue>>

\* The provider with one day that queries it through useDatePicker(date),
\* under a configuration that may limit the days.
InitQuery ==
  /\ DatePickerProvider(QueryConfigs)
  /\ \E date \in Timestamps : hook = [date |-> date, selected |-> "false", due |-> TRUE]

NextQuery ==
  \/ \E date \in PickDates : OnSelection(date)
  \/ \E date \in PickDates : OnDayFocus(date)
  \/ \E date \in PickDates : OnDayBlur(date)
  \/ \E s \in SaveArgs : SaveValue(s)
  \/ RevertValue
  \/ ConfigurationEffect
  \/ StatusEffect

SpecQuery == InitQuery /\ [][NextQuery]_vars

\* ------------------------------------------------------------- properties
Pending(sel) == sel.k = "range" /\ sel.to = NoDate
Closed(sel)  == sel.k = "range" /\ sel.to # NoDate

\* C1: in multi mode the Multi selection is strictly ascending and holds no
\* two dates of the same calendar day, in every reachable state.
C1_MultiStrictlyAscending ==
  (configuration.selection = "multi" /\ selection.k = "arr") =>
    \A i, j \in DOMAIN selection.ds :
      i < j => /\ selection.ds[i] < selection.ds[j]
               /\ toDateString(selection.ds[i]) # toDateString(selection.ds[j])

\* C2: in range mode, whenever Selection.to is non-null, Selection.from is
\* not after Selection.to, in every reachable state.
C2_RangeOrdered ==
  (configuration.selection = "range" /\ Closed(selection)) =>
    /\ selection.from # NaN
    /\ selection.to # NaN
    /\ selection.from <= selection.to

\* C3: tentative mutations (onSelection, onDayFocus, onDayBlur that do not
\* commit) leave PreviousSelection as it was, and revertValue then makes
\* Selection equal to that PreviousSelection, whatever the tentative
\* selection was.
C3_RevertRestores ==
  [][/\ (last'.op \in {"onSelection", "onDayFocus", "onDayBlur"} /\ closeCalls' = 0)
          => previousSelection' = previousSelection
     /\ last'.op = "revertValue"
          => /\ selection' = previousSelection
             /\ previousSelection' = previousSelection
             /\ ~thrown']_vars

\* C3 witness: revertValue has just discarded an open range the user had
\* started (its hover preview is still held), restoring a committed range.
C3_Witness ==
  /\ last.op = "revertValue"
  /\ configuration.selection = "range"
  /\ hoverRange.k = "range"
  /\ Closed(selection)
  /\ selection = previousSelection

\* C4: PreviousSelection changes only in a step in which saveValue runs;
\* with confirmation on, no onSelection, onDayFocus, onDayBlur, navigation
\* or revertValue step changes it.
C4_PreviousOnlyAtCommit ==
  [][/\ previousSelection' # previousSelection => closeCalls' > 0
     /\ (configuration.confirmation /\ last'.op # "saveValue")
          => previousSelection' = previousSelection]_vars

\* C4 witness: with confirmation on, a multi toggle has produced a tentative
\* list that differs from the committed list.
C4_Witness ==
  /\ configuration.confirmation
  /\ configuration.selection = "multi"
  /\ last.op = "onSelection"
  /\ selection.k = "arr"
  /\ previousSelection.k = "arr"
  /\ Len(previousSelection.ds) > 0
  /\ selection # previousSelection

\* C5: in range mode, from a state with no open range, choosing A then B
\* gives the same Selection (and, with confirmation off, the same
\* PreviousSelection) as choosing B then A.
C5_RangeOrderIndependent ==
  (configuration.selection = "range" /\ ~Pending(selection)) =>
    \A A, B \in PickDates :
      LET ab == selectionHandler(selectionHandler(Store, A), B)
          ba == selectionHandler(selectionHandler(Store, B), A)
      IN /\ ab.selection = ba.selection
         /\ Closed(ab.selection)
         /\ ~configuration.confirmation
              => ab.previousSelection = ba.previousSelection

\* C5 witness: a range closed by onSelection whose second day precedes the
\* first, committed on closing.
C5_Witness ==
  /\ configuration.selection = "range"
  /\ ~configuration.confirmation
  /\ last.op = "onSelection"
  /\ Closed(selection)
  /\ last.date = selection.from
  /\ selection.from < selection.to
  /\ previousSelection = selection
  /\ closeCalls = 1

\* C6: in multi mode, for every reachable Multi selection and every date d,
\* onSelection(d) twice in succession gives the selection back.
C6_ToggleInvolution ==
  (configuration.selection = "multi" /\ selection.k = "arr") =>
    \A d \in PickDates :
      selectionHandler(selectionHandler(Store, d), d).selection = selection

\* C7: in range mode, when Selection is None or a range with both
\* endpoints, onSelection(d) sets Selection = {from: d, to: null} and
\* HoverRange = {from: d, to: d} and does not commit, whatever the
\* confirmation option.
C7_RangeStart ==
  [][(/\ last'.op = "onSelection"
      /\ configuration.selection = "range"
      /\ (selection.k = "none" \/ Closed(selection)))
       => /\ selection' = RangeV(last'.date, NoDate)
          /\ hoverRange' = RangeV(last'.date, last'.date)
          /\ previousSelection' = previousSelection
          /\ closeCalls' = 0
          /\ ~thrown']_vars

\* C7 witness: with confirmation off, a new range has been started over a
\* committed closed range, and nothing was committed.
C7_Witness ==
  /\ last.op = "onSelection"
  /\ configuration.selection = "range"
  /\ ~configuration.confirmation
  /\ selection = RangeV(last.date, NoDate)
  /\ hoverRange = RangeV(last.date, last.date)
  /\ Closed(previousSelection)
  /\ closeCalls = 0

\* C8: in range mode, when Selection is an open range {from: f, to: null},
\* onSelection(d) sets Selection to {from: d, to: f} if d precedes f and to
\* {from: f, to: d} otherwise, clears HoverRange, and commits in the same
\* step (PreviousSelection is the closed range, closePicker is called) if
\* and only if confirmation is off.
C8_RangeClose ==
  [][(/\ last'.op = "onSelection"
      /\ configuration.selection = "range"
      /\ Pending(selection))
       => LET d == last'.date
              f == selection.from
          IN /\ selection' = IF f # NaN /\ d < f THEN RangeV(d, f) ELSE RangeV(f, d)
             /\ hoverRange' = None
             /\ ~thrown'
             /\ IF configuration.confirmation
                  THEN previousSelection' = previousSelection /\ closeCalls' = 0
                  ELSE previousSelection' = selection' /\ closeCalls' = 1]_vars

\* C8 witness: with confirmation on, an open range has been closed by a day
\* that precedes its first day, and nothing was committed.
C8_Witness ==
  /\ last.op = "onSelection"
  /\ configuration.selection = "range"
  /\ configuration.confirmation
  /\ Closed(selection)
  /\ selection.from = last.date
  /\ selection.from < selection.to
  /\ hoverRange = None
  /\ previousSelection # selection
  /\ closeCalls = 0

\* C9: in single mode, onSelection(d) replaces Selection with d; with
\* confirmation off it commits in the same step, with confirmation on it
\* leaves PreviousSelection alone and closePicker is called by saveValue
\* only.
C9_SingleChoice ==
  [][configuration.selection = "single" =>
       /\ last'.op = "onSelection" =>
            /\ selection' = DateV(last'.date)
            /\ ~thrown'
            /\ IF configuration.confirmation
                 THEN previousSelection' = previousSelection /\ closeCalls' = 0
                 ELSE previousSelection' = DateV(last'.date) /\ closeCalls' = 1
       /\ (configuration.confirmation /\ closeCalls' > 0)
            => last'.op = "saveValue"]_vars

\* C9 witness: with confirmation on, a day has been chosen over a different
\* committed day, and nothing was committed.
C9_Witness ==
  /\ last.op = "onSelection"
  /\ configuration.selection = "single"
  /\ configuration.confirmation
  /\ selection = DateV(last.date)
  /\ previousSelection.k = "date"
  /\ previousSelection # selection
  /\ closeCalls = 0

\* The first occurrence of d taken out of the list ds.
Without(ds, d) ==
  LET i == CHOOSE n \in DOMAIN ds : ds[n] = d /\ \A m \in 1 .. (n - 1) : ds[m] # d
  IN SubSeq(ds, 1, i - 1) \o SubSeq(ds, i + 1, Len(ds))

\* C10: in multi mode, for Selection None as well as any Multi list, and
\* every date d, onSelection(d) completes without error and gives the list
\* without d if d was a member, and with d added otherwise; it never
\* changes PreviousSelection and never calls closePicker.
C10_MultiToggle ==
  [][(/\ last'.op = "onSelection"
      /\ configuration.selection = "multi"
      /\ selection.k \in {"none", "arr"})
       => LET d  == last'.date
              ds == selection.ds
          IN /\ ~thrown'
             /\ selection'.k = "arr"
             /\ IF \E n \in DOMAIN ds : ds[n] = d
                  THEN selection'.ds = Without(ds, d)
                  ELSE /\ Len(selection'.ds) = Len(ds) + 1
                       /\ \E n \in DOMAIN selection'.ds :
                            /\ selection'.ds[n] = d
                            /\ Without(selection'.ds, d) = ds
             /\ previousSelection' = previousSelection
             /\ closeCalls' = 0]_vars

\* C11: saveValue(s) sets PreviousSelection to s when s is supplied and to
\* the current Selection otherwise, leaves Selection unchanged and calls
\* closePicker exactly once; closePicker is called in no step other than a
\* commit (a saveValue, or an onSelection that commits), so never by
\* revertValue, onDayFocus, onDayBlur or navigation.
C11_Commit ==
  [][/\ last'.op = "saveValue"
          => /\ previousSelection' =
                  IF last'.arg # None THEN last'.arg ELSE selection
             /\ selection' = selection
             /\ hoverRange' = hoverRange
             /\ closeCalls' = 1
     /\ closeCalls' > 0
          => /\ last'.op \in {"saveValue", "onSelection"}
             /\ closeCalls' = 1
             /\ previousSelection' # previousSelection
                  => previousSelection' \in {selection', last'.arg}]_vars

\* C11 witness: saveValue(s) has committed the selection it was given,
\* which is not the tentative selection, and closePicker was called once.
C11_Witness ==
  /\ last.op = "saveValue"
  /\ last.arg # None
  /\ previousSelection = last.arg
  /\ selection # None
  /\ selection # previousSelection
  /\ closeCalls = 1

\* C12 (as claimed): invoked where Selection equals PreviousSelection,
\* saveValue() and revertValue() leave Selection, PreviousSelection,
\* HoverRange and ViewingDate unchanged and have no further effect
\* (closePicker is not called).
C12_NoOpWithoutEffect ==
  [][(/\ selection = previousSelection
      /\ \/ last'.op = "revertValue"
         \/ last'.op = "saveValue" /\ last'.arg = None)
       => /\ UNCHANGED <<selection, previousSelection, hoverRange,
                         currentViewingDate>>
          /\ closeCalls' = 0]_vars

\* C12 (amended): invoked where Selection equals PreviousSelection,
\* saveValue() and revertValue() leave Selection, PreviousSelection,
\* HoverRange and ViewingDate unchanged; revertValue has no further effect,
\* saveValue() still calls closePicker once.  In every state, invoking
\* either twice gives the same four values as invoking it once.
C12_NoOpButClose ==
  [][/\ (/\ selection = previousSelection
         /\ \/ last'.op = "revertValue"
            \/ last'.op = "saveValue" /\ last'.arg = None)
          => /\ UNCHANGED <<selection, previousSelection, hoverRange,
                            currentViewingDate>>
             /\ closeCalls' = IF last'.op = "saveValue" THEN 1 ELSE 0
     /\ LET once == revertValue(Store)
            twice == revertValue([once EXCEPT !.closeCalls = 0])
        IN /\ twice.selection = once.selection
           /\ twice.previousSelection = once.previousSelection
           /\ twice.hoverRange = once.hoverRange
     /\ LET once == saveValue(Store, None)
            twice == saveValue([once EXCEPT !.closeCalls = 0], None)
        IN /\ twice.selection = once.selection
           /\ twice.previousSelection = once.previousSelection
           /\ twice.hoverRange = once.hoverRange]_vars

\* C12 witness: saveValue() has run with nothing pending, on a committed
\* selection, while the view shows another month than at construction.
C12_Witness ==
  /\ last.op = "saveValue"
  /\ last.arg = None
  /\ selection = previousSelection
  /\ selection # None
  /\ currentViewingDate # Now
  /\ closeCalls = 1

\* C13: in range mode, whenever Selection is an open range {from: f, to:
\* null}, onDayFocus(d) sets HoverRange to {d, f} if d precedes f and to
\* {f, d} otherwise and leaves Selection and PreviousSelection unchanged;
\* when no range is pending, onDayFocus changes nothing.
C13_FocusPreview ==
  [][(last'.op = "onDayFocus" /\ configuration.selection = "range")
       => /\ selection' = selection
          /\ previousSelection' = previousSelection
          /\ closeCalls' = 0
          /\ IF Pending(selection)
               THEN LET d == last'.date
                        f == selection.from
                    IN hoverRange' = IF f # NaN /\ d < f THEN RangeV(d, f)
                                     ELSE RangeV(f, d)
               ELSE hoverRange' = hoverRange]_vars

\* C14: parse(array, multi) is the input array's elements normalized to
\* calendar days, with duplicates (by calendar day) removed, sorted
\* ascending.  Stated of the provider constructed in multi mode with an
\* array of dates as its value.
C14_ParseArrayMulti ==
  (/\ last.op = "mount"
   /\ last.arg.k = "arr"
   /\ configuration.selection = "multi")
    => /\ selection.k = "arr"
       /\ {selection.ds[i] : i \in DOMAIN selection.ds}
            = {Normalized(last.arg.ds[i]) : i \in DOMAIN last.arg.ds}
       /\ \A i, j \in DOMAIN selection.ds :
            i < j => selection.ds[i] < selection.ds[j]

\* C15: parse(parse(v, m), m) = parse(v, m) for every value v a caller
\* passes and every mode m; in particular the configuration effect that
\* re-parses the selection right after construction leaves it as it is.
C15_ParseIdempotent ==
  [][last.op = "mount"
       => /\ \A m \in SelectionVariant :
               parseSelection(parseSelection(last.arg, m), m)
                 = parseSelection(last.arg, m)
          /\ last'.op = "effect" => selection' = selection]_vars

\* C15 witness: construction in multi mode has parsed a single date with a
\* time of day into the list of its day, which a second parse leaves alone.
C15_Witness ==
  /\ last.op = "mount"
  /\ last.arg = DateV(DayLen + 1)
  /\ configuration.selection = "multi"
  /\ selection = ArrV(<<DayLen>>)
  /\ parseSelection(selection, "multi") = selection

\* C16: a single date passed as the value, as a Date or as a string, is
\* parsed to the variant of the configured mode: that date in single mode,
\* [date] in multi mode, {from: date, to: null} in range mode; never None.
C16_ParseSingleDate ==
  (last.op = "mount" /\ last.arg.k \in {"date", "str"})
    => LET d == Normalized(last.arg.t)
       IN selection = CASE configuration.selection = "multi" -> ArrV(<<d>>)
                        [] configuration.selection = "range" -> RangeV(d, NoDate)
                        [] OTHER -> DateV(d)

\* C20: nextMonth and previousMonth move the viewing date to the next and
\* to the previous calendar month whatever its day of the month (the month
\* index counts across the turn of the year), previousMonth after
\* nextMonth gives the month it started from, and goToMonth(d) sets the
\* viewing date to midnight of d's day.
C20_MonthNavigation ==
  [][/\ last'.op = "nextMonth"
          => /\ getMonth(currentViewingDate') = getMonth(currentViewingDate) + 1
             /\ getMonth(subMonths(currentViewingDate', 1))
                  = getMonth(currentViewingDate)
     /\ last'.op = "previousMonth"
          => getMonth(currentViewingDate') = getMonth(currentViewingDate) - 1
     /\ last'.op = "goToMonth"
          => /\ currentViewingDate' \div DayLen = last'.date \div DayLen
             /\ currentViewingDate' % DayLen = 0]_vars

\* C20 witness: previousMonth has arrived at 29 January, from the 29
\* February that nextMonth made of 31 January.
C20_Witness ==
  /\ last.op = "previousMonth"
  /\ getMonth(currentViewingDate) = 2
  /\ getDate(currentViewingDate) = 29

\* C19: formattedDate is "Invalid Selection" whenever the shape of the
\* held Selection does not match the configured mode (a date list or a
\* from/to pair in single mode, and so on), it is "Invalid Configuration"
\* whenever the mode is none of single, multi and range, and computing it
\* never raises.
C19_FormattedDate ==
  /\ formattedDate # Literal("RangeError")
  /\ configuration.selection \notin SelectionVariant
       => formattedDate = Literal("Invalid Configuration")
  /\ (/\ configuration.selection \in SelectionVariant
      /\ selection # None
      /\ selection.k # (CASE configuration.selection = "multi" -> "arr"
                          [] configuration.selection = "range" -> "range"
                          [] OTHER -> "date"))
       => formattedDate = Literal("Invalid Selection")

\* C17: once the status effect has run, the status of the queried date is
\* derived from HoverRange whenever a HoverRange is active (start if the
\* date equals from, end if it equals to, middle if strictly between, none
\* otherwise) and only otherwise from Selection (the same rule for a
\* from/to pair, membership for a list, equality for a single date); so
\* while a range is open the hover preview takes precedence.
C17_StatusPrecedence ==
  (hook.date # NoDate /\ ~hook.due)
    => LET d == hook.date
           Of(r) == IF d = r.from THEN "start"
                    ELSE IF r.to # NoDate /\ d = r.to THEN "end"
                    ELSE IF r.from # NaN /\ r.to # NoDate /\ r.from < d /\ d < r.to
                      THEN "middle"
                    ELSE "false"
       IN IF hoverRange # None THEN hook.selected = Of(hoverRange)
          ELSE /\ selection.k = "range" => hook.selected = Of(selection)
               /\ selection.k = "arr"
                    => (hook.selected = "true"
                          <=> d \in {selection.ds[i] : i \in DOMAIN selection.ds})
               /\ selection.k = "date" => (hook.selected = "true" <=> d = selection.t)
               /\ selection.k \in {"arr", "date"} => hook.selected \in {"true", "false"}

\* C17 witness: while the range is open the queried date is the end of the
\* hover preview, which the selection alone does not contain.
C17_Witness ==
  /\ ~hook.due
  /\ Pending(selection)
  /\ hoverRange # None
  /\ hoverRange.to = hook.date
  /\ selection.from # hook.date
  /\ hook.selected = "end"

\* C18: for the queried date, blocked is true iff some entry of
\* configuration.blockedDates falls on the same calendar day, whatever the
\* times of day, and disabled is true iff the date's calendar day is before
\* minDate's or after maxDate's, when those are configured.
C18_BlockedDisabled ==
  hook.date # NoDate
    => LET cfg == configuration
           day(t) == t \div DayLen
       IN /\ blocked(cfg, hook.date) = "true"
               <=> /\ "blockedDates" \in DOMAIN cfg
                   /\ \E i \in DOMAIN cfg.blockedDates :
                        day(cfg.blockedDates[i]) = day(hook.date)
          /\ disabled(cfg, hook.date)
               <=> \/ "minDate" \in DOMAIN cfg /\ day(hook.date) < day(cfg.minDate)
                   \/ "maxDate" \in DOMAIN cfg /\ day(hook.date) > day(cfg.maxDate)

\* C21 (as claimed): once the caller's partial configuration is merged, the
\* resolved configuration has a value for every field of the data model,
\* every supplied field has the caller's value and every omitted field has
\* the fixed default.
C21_EveryFieldResolved ==
  last.op # "reconfigure"
    => /\ ConfigurationFields \subseteq DOMAIN configuration
       /\ \A f \in DOMAIN externalConfig : configuration[f] = externalConfig[f]
       /\ \A f \in DOMAIN configuration \ DOMAIN externalConfig :
            configuration[f] = defaultConfiguration[f]

\* C21 (amended): once the caller's partial configuration is merged, the
\* resolved configuration has a value for exactly the fields that have a
\* default (anchorVariant, confirmation, contiguousSelection, dimWeekends,
\* placeholder, selection, view, weekStartsOn) or that the caller supplied;
\* every supplied field has the caller's value and every other field that
\* has a default has the default.
C21_DefaultsUnderOverrides ==
  last.op # "reconfigure"
    => /\ DOMAIN configuration
            = (DOMAIN defaultConfiguration) \cup (DOMAIN externalConfig)
       /\ DOMAIN configuration \subseteq ConfigurationFields
       /\ \A f \in DOMAIN externalConfig : configuration[f] = externalConfig[f]
       /\ \A f \in DOMAIN defaultConfiguration \ DOMAIN externalConfig :
            configuration[f] = defaultConfiguration[f]

\* C21 witness: the effect has merged a new configuration that turns
\* confirmation on and names no mode, over one that named another mode
\* than the default.
C21_Witness ==
  /\ last.op = "effect"
  /\ reconfigs = 1
  /\ DOMAIN externalConfig = {"confirmation"}
  /\ configuration.confirmation = TRUE
  /\ configuration.selection = "single"
  /\ effectDue

\* The shape of Selection that a mode allows: None, or a single date in
\* single mode, a date list in multi mode, a from/to pair in range mode.
Canonical(sel, mode) ==
  \/ sel = None
  \/ sel.k = (CASE mode = "multi" -> "arr" [] mode = "range" -> "range"
                [] OTHER -> "date")

\* C22: when the caller supplies a configuration whose selection mode
\* differs from the current one, then once the effect has applied it (its
\* run with the old mode and its run with the new mode) Selection equals
\* parse(old Selection, new mode) and has the shape of the new mode.  The
\* first run must leave a selection that parses to the same value under the
\* new mode as the old one, and the second run must parse it under the new
\* mode.
C22_ReparseOnModeChange ==
  [][/\ (/\ last.op = "reconfigure"
         /\ last'.op = "effect"
         /\ configuration'.selection # configuration.selection)
          => parseSelection(selection', configuration'.selection)
               = parseSelection(selection, configuration'.selection)
     /\ (/\ last.op = "effect"
         /\ last'.op = "effect"
         /\ reconfigs > 0)
          => /\ selection' = parseSelection(selection, configuration.selection)
             /\ Canonical(selection', configuration'.selection)]_vars

\* C23: in every reachable state HoverRange is non-null only if the mode is
\* range and Selection is an open range; so no hover preview remains after
\* a range is closed, reverted or committed.
C23_HoverOnlyWhilePending ==
  hoverRange # None => (configuration.selection = "range" /\ Pending(selection))

\* C24: in every state a consumer observes (all effects have run), the
\* derived values are the derivation from the current state: formattedDate
\* is the formatting of Selection under Configuration, and the status of
\* the queried date is the one HoverRange gives when it is active, else the
\* one Selection gives, and none when there is neither.
C24_DerivedFromCurrentState ==
  (hook.date # NoDate /\ ~hook.due /\ ~effectDue)
    => LET d == hook.date
           Of(r) == IF d = r.from THEN "start"
                    ELSE IF r.to # NoDate /\ d = r.to THEN "end"
                    ELSE IF r.from # NaN /\ r.to # NoDate /\ r.from < d /\ d < r.to
                      THEN "middle"
                    ELSE "false"
           Member(ds) == IF d \in {ds[i] : i \in DOMAIN ds} THEN "true" ELSE "false"
       IN /\ formattedDate = getFormattedDate(configuration, selection)
          /\ hook.selected =
               CASE hoverRange # None -> Of(hoverRange)
                 [] selection.k = "range" -> Of(selection)
                 [] selection.k = "arr" -> Member(selection.ds)
                 [] selection.k = "date" -> Member(<<selection.t>>)
                 [] OTHER -> "false"

\* C25: in every reachable state the shape of Selection matches the
\* configured mode: None or a single date in single mode, None or a date
\* list in multi mode, None or a from/to pair in range mode.
C25_ShapeMatchesMode ==
  Canonical(selection, configuration.selection)

\* C26: onDayBlur, goToMonth, nextMonth and previousMonth leave Selection,
\* PreviousSelection and HoverRange unchanged, and onSelection, onDayFocus,
\* saveValue and revertValue leave the viewing date unchanged.
C26_Frames ==
  [][/\ last'.op \in {"onDayBlur", "goToMonth", "nextMonth", "previousMonth"}
          => UNCHANGED <<selection, previousSelection, hoverRange>>
     /\ last'.op \in {"onSelection", "onDayFocus", "saveValue", "revertValue"}
          => UNCHANGED currentViewingDate]_vars

\* C26 witness: onDayBlur of the last day of the hover preview, while the
\* range is open and the view has been moved to another month.
C26_Witness ==
  /\ last.op = "onDayBlur"
  /\ Pending(selection)
  /\ hoverRange # None
  /\ hoverRange.to = last.date
  /\ hoverRange.to # hoverRange.from
  /\ getMonth(currentViewingDate) # getMonth(Now)

\* C27: when the caller's configuration does not change, also when none is
\* supplied, the configuration effect runs only finitely often after
\* construction and after each event: the provider always comes to a state
\* in which the effect is not scheduled.
C27_Quiescence == []<>(~effectDue)

=============================================================================
